---- MODULE Spec2Model ----
(***************************************************************************)
(* State-machine model of assets/icon/generate_icon.py: generate_icon()    *)
(* is one linear routine; each action below is one statement group of it.  *)
(* The drawing library (Pillow) and the file system are the environment:   *)
(* font loads may fail, any library call may raise, text metrics are a     *)
(* function of the font and the text that the model reveals lazily.        *)
(***************************************************************************)
EXTENDS Integers, Sequences, FiniteSets, TLC

VARIABLES
    pc,             \* position in generate_icon(): the next statement group
    run,            \* which invocation of generate_icon() this is (1 or 2)
    img,            \* the canvas (Image): size, mode, centre pixel, draw log
    font_large,     \* 140pt font handle
    font_emoji,     \* 40pt font handle
    hello_width, hello_height, hello_img, hello_rotated,
    world_width, world_height, world_img, world_rotated,
    pos_idx,        \* index of the next position in the current for-loop
    output_path,    \* local output_path ("" while unbound)
    ret,            \* value returned by generate_icon() ("" while none)
    stdout,         \* lines printed so far by the process
    disk,           \* working directory: file name -> file
    raised,         \* history: steps of this run at which a call raised
    covered,        \* history: elements of this run drawn over pixel (512,512)
    writes,         \* history: number of completed img.save calls in this run
    prev,           \* history: output file and font of the previous run
    metrics,        \* environment: font -> text metrics, as far as revealed
    inks            \* environment: <<font, text>> -> glyph ink at (512,512)

fonts     == <<font_large, font_emoji>>
helloVars == <<hello_width, hello_height, hello_img, hello_rotated>>
worldVars == <<world_width, world_height, world_img, world_rotated>>
outVars   == <<output_path, ret, stdout, disk>>
histVars  == <<covered, writes, prev>>
envVars   == <<metrics, inks>>
vars == <<pc, run, img, pos_idx, raised, fonts, helloVars, worldVars, outVars,
          histVars, envVars>>

(***************************************************************************)
(* Bounds of the model.                                                    *)
(***************************************************************************)
\* text widths the environment may report: 27 + 311*k, k in 0..MaxWidthIdx
MaxWidthIdx == 1

Widths  == {27 + 311 * k : k \in 0..MaxWidthIdx}
Heights == {11, 102}
\* generate_icon() is invoked at most twice in one process
Runs == {1, 2}

(***************************************************************************)
(* Literals of the routine.                                                *)
(***************************************************************************)
CanvasSide == 1024
size == <<CanvasSide, CanvasSide>>
BgColor == <<248, 249, 250, 255>>
OutlineColor == <<222, 226, 230, 255>>
OutlineWidth == 8
center == <<512, 512>>
radius == 480
circle_bbox == <<center[1] - radius, center[2] - radius,
                 center[1] + radius, center[2] + radius>>

ArialName == "arial.ttf"
ArialPath == "C:/Windows/Fonts/arial.ttf"
LargeSize == 140
EmojiSize == 40

hello_text == "Hello"
hello_color == <<255, 59, 48, 255>>
hello_y == 350
HelloAngle == -8
world_text == "World"
world_color == <<0, 122, 255, 255>>
world_y == 520
WorldAngle == 5
PadX == 50
PadY == 25

star_color == <<255, 215, 0, 200>>
heart_color == <<255, 105, 180, 150>>
sparkle_positions == << <<180, 200>>, <<844, 180>>, <<160, 780>>, <<860, 820>> >>
star_size == 20
heart_positions == << <<240, 340>>, <<780, 680>> >>
HeartRadius == 15
OutputName == "icon.png"

(***************************************************************************)
(* Values for unbound locals and absent files.                             *)
(***************************************************************************)
NoFont  == [src |-> "", size |-> 0]
NoLayer == [size |-> <<0, 0>>, text |-> "", at |-> <<0, 0>>, font |-> NoFont,
            fill |-> <<0, 0, 0, 0>>, angle |-> 0]
NoImage == [size |-> <<0, 0>>, mode |-> "", px |-> <<0, 0, 0, 0>>, ops |-> <<>>]
NoFile  == [format |-> "", size |-> <<0, 0>>, mode |-> "", px |-> <<0, 0, 0, 0>>,
            ops |-> <<>>]
\* a file some other program left under the output name
OldFile == [format |-> "PNG", size |-> <<512, 512>>, mode |-> "RGB",
            px |-> <<0, 0, 0, 0>>, ops |-> <<>>]
NoPrev  == [file |-> NoFile, font |-> NoFont]
FileNames == {OutputName}

(***************************************************************************)
(* Library calls, by what they do to the values the routine holds.         *)
(***************************************************************************)
\* mutant: the canvas is opened from the existing output file when there is one
Image_new_FromDisk(mode, sz, color) ==
    IF disk[OutputName] # NoFile
    THEN [size |-> disk[OutputName].size, mode |-> disk[OutputName].mode,
          px |-> disk[OutputName].px, ops |-> disk[OutputName].ops]
    ELSE [size |-> sz, mode |-> mode, px |-> color, ops |-> <<>>]

\* Image.new(mode, size, color): px is the pixel at (512,512), ops the draws
Image_new(mode, sz, color) ==
    [size |-> sz, mode |-> mode, px |-> color, ops |-> <<>>]

\* ImageFont.truetype(path, size) when it succeeds
truetype(path, sz) == [src |-> path, size |-> sz]

\* ImageFont.load_default()
load_default == [src |-> "default", size |-> 10]

\* which tier of the fallback chain a font handle comes from (0: unbound)
TierOf(font) ==
    CASE font.src = ArialName -> 1
      [] font.src = ArialPath -> 2
      [] font.src = "default" -> 3
      [] OTHER -> 0

\* mutant: the inner try has no except, a tier-2 failure leaves the routine
Handler_Tier2Fatal(step) ==
    CASE step \in {"t1_large", "t1_emoji"} -> "t2_large"
      [] OTHER -> "fault"

\* mutant: the outer except goes straight to the default font
Handler_SkipTier2(step) ==
    CASE step \in {"t1_large", "t1_emoji"} -> "t3_large"
      [] step \in {"t2_large", "t2_emoji"} -> "t3_large"
      [] OTHER -> "fault"

\* mutant: the save is wrapped in a try whose except passes
Handler_SwallowSave(step) ==
    CASE step \in {"t1_large", "t1_emoji"} -> "t2_large"
      [] step \in {"t2_large", "t2_emoji"} -> "t3_large"
      [] step = "save" -> "print"
      [] OTHER -> "fault"

\* mutant: each 40pt load has a try of its own whose except passes
Handler_SplitTry(step) ==
    CASE step = "t1_large" -> "t2_large"
      [] step = "t2_large" -> "t3_large"
      [] step \in {"t1_emoji", "t2_emoji"} -> "hello_measure"
      [] OTHER -> "fault"

\* where control goes when the statement at `step` raises: the two nested
\* bare excepts catch only what is raised inside their own try body
Handler(step) ==
    CASE step \in {"t1_large", "t1_emoji"} -> "t2_large"
      [] step \in {"t2_large", "t2_emoji"} -> "t3_large"
      [] OTHER -> "fault"

(***************************************************************************)
(* Geometry of the drawing calls.                                          *)
(***************************************************************************)
Sq(n) == n * n

InBox(p, box) ==
    /\ box[1] <= p[1] /\ p[1] < box[3]
    /\ box[2] <= p[2] /\ p[2] < box[4]

\* draw.ellipse(bbox, fill, outline, width) at pixel p, for a circular bbox;
\* distances are taken in half pixels so that the centre is an integer
EllipsePixel(bbox, fill, outline, width, p, old) ==
    LET d2    == Sq(2 * p[1] - (bbox[1] + bbox[3])) + Sq(2 * p[2] - (bbox[2] + bbox[4]))
        diam  == bbox[3] - bbox[1]
    IN  IF d2 > Sq(diam) THEN old
        ELSE IF d2 > Sq(diam - 2 * width) THEN outline
        ELSE fill

\* 1000 * math.cos(math.radians(deg)), 1000 * math.sin(math.radians(deg)),
\* rounded, for the angles i * 36 - 90 the star loop uses
CosMilli(deg) ==
    CASE deg \in {-90, 90} -> 0
      [] deg \in {-54, 54} -> 588
      [] deg \in {-18, 18} -> 951
      [] deg \in {126, 234} -> -588
      [] deg \in {162, 198} -> -951

SinMilli(deg) ==
    CASE deg = -90 -> -1000
      [] deg \in {-54, 234} -> -809
      [] deg \in {-18, 198} -> -309
      [] deg \in {18, 162} -> 309
      [] deg \in {54, 126} -> 809
      [] deg = 90 -> 1000

\* mutant: the vertices are left relative to the star's centre
StarPoints_NoOffset(pos) ==
    [n \in 1..10 |->
        LET i     == n - 1
            angle == i * 36
            r     == IF i % 2 = 0 THEN star_size ELSE star_size \div 2
        IN  <<r * CosMilli(angle - 90), r * SinMilli(angle - 90)>>]

\* the ten vertices of one star, in thousandths of a pixel
StarPoints(pos) ==
    [n \in 1..10 |->
        LET i     == n - 1
            angle == i * 36
            r     == IF i % 2 = 0 THEN star_size ELSE star_size \div 2
        IN  <<pos[1] * 1000 + r * CosMilli(angle - 90),
              pos[2] * 1000 + r * SinMilli(angle - 90)>>]

\* the heart's bounding box
HeartBox(pos) ==
    <<pos[1] - HeartRadius, pos[2] - HeartRadius,
      pos[1] + HeartRadius, pos[2] + HeartRadius>>

Min(S) == CHOOSE x \in S : \A y \in S : x <= y
Max(S) == CHOOSE x \in S : \A y \in S : x >= y

\* whether a polygon with these vertices can touch pixel p: p lies in the
\* vertices' bounding box (the polygon itself is inside that box)
PolygonMayTouch(pts, p) ==
    LET xs == {pts[n][1] : n \in DOMAIN pts}
        ys == {pts[n][2] : n \in DOMAIN pts}
    IN  /\ Min(xs) <= p[1] * 1000 /\ p[1] * 1000 <= Max(xs)
        /\ Min(ys) <= p[2] * 1000 /\ p[2] * 1000 <= Max(ys)

\* 100000 * |cos|, 100000 * |sin| of the two rotation angles
CosE5(angle) == CASE angle \in {-8, 8} -> 99027 [] angle \in {-5, 5} -> 99619
SinE5(angle) == CASE angle \in {-8, 8} -> 13917 [] angle \in {-5, 5} -> 8716

CeilDiv(a, b) == -((-a) \div b)

\* Image.rotate(angle, expand=True): the rotated corners span s about the
\* centre w/2, and the new side is ceil(w/2 + s/2) - floor(w/2 - s/2)
RotatedSize(sz, angle) ==
    LET w  == sz[1]
        h  == sz[2]
        sx == w * CosE5(angle) + h * SinE5(angle)
        sy == w * SinE5(angle) + h * CosE5(angle)
    IN  <<CeilDiv(w * 100000 + sx, 200000) - ((w * 100000 - sx) \div 200000),
          CeilDiv(h * 100000 + sy, 200000) - ((h * 100000 - sy) \div 200000)>>

rotate(layer, angle) ==
    [layer EXCEPT !.size = RotatedSize(layer.size, angle), !.angle = angle]

\* a fresh transparent layer with the text drawn on it at (50, 25)
TextLayer(width, height, text, font, fill) ==
    [size |-> <<width + 100, height + 50>>, text |-> text,
     at |-> <<50, 25>>, font |-> font, fill |-> fill, angle |-> 0]

\* the canvas box img.paste(layer, at, layer) writes to
PasteBox(layer, at) ==
    <<at[1], at[2], at[1] + layer.size[1], at[2] + layer.size[2]>>

\* mutant: the pasted layer replaces the canvas (img = layer)
paste_Replace(im, layer, at, ink) ==
    [im EXCEPT
        !.size = layer.size,
        !.px   = IF ink THEN layer.fill ELSE @,
        !.ops  = Append(@, [kind |-> "paste", what |-> layer.text,
                            box |-> <<at[1], at[2], at[1] + layer.size[1],
                                      at[2] + layer.size[2]>>,
                            fill |-> layer.fill, font |-> layer.font,
                            angle |-> layer.angle, pts |-> <<>>])]

\* img.paste(layer, at, layer): the layer's alpha is the mask, so a canvas
\* pixel changes only where the layer has ink; size and mode are kept
paste(im, layer, at, ink) ==
    [im EXCEPT
        !.px  = IF ink THEN layer.fill ELSE @,
        !.ops = Append(@, [kind |-> "paste", what |-> layer.text,
                           box |-> PasteBox(layer, at), fill |-> layer.fill,
                           font |-> layer.font, angle |-> layer.angle,
                           pts |-> <<>>])]

\* mutant: fill and outline colours are passed the wrong way round
ellipse_Swapped(im, what, bbox, fill, outline, width) ==
    [im EXCEPT
        !.px  = EllipsePixel(bbox, outline, fill, width, center, @),
        !.ops = Append(@, [kind |-> "ellipse", what |-> what, box |-> bbox,
                           fill |-> outline, font |-> NoFont, angle |-> 0,
                           pts |-> <<>>])]

\* draw.ellipse on the canvas
ellipse(im, what, bbox, fill, outline, width) ==
    [im EXCEPT
        !.px  = EllipsePixel(bbox, fill, outline, width, center, @),
        !.ops = Append(@, [kind |-> "ellipse", what |-> what, box |-> bbox,
                           fill |-> fill, font |-> NoFont, angle |-> 0,
                           pts |-> <<>>])]

\* draw.polygon on the canvas; touch says whether it inks pixel (512,512)
polygon(im, what, pts, fill, touch) ==
    [im EXCEPT
        !.px  = IF touch THEN fill ELSE @,
        !.ops = Append(@, [kind |-> "polygon", what |-> what,
                           box |-> <<0, 0, 0, 0>>, fill |-> fill,
                           font |-> NoFont, angle |-> 0, pts |-> pts])]

\* img.save(path, "PNG"): PNG stores RGBA losslessly at the image's size
EncodePNG(im) ==
    [format |-> "PNG", size |-> im.size, mode |-> im.mode, px |-> im.px,
     ops |-> im.ops]

(***************************************************************************)
(* The environment's answers.                                              *)
(***************************************************************************)
\* draw.textbbox((0, 0), text, font): (left, top, right, bottom). A font has
\* one metric; "World" comes out one pixel wider than "Hello".
TextBBox(m, text) ==
    LET w == m[1] + (IF text = world_text THEN 1 ELSE 0)
        h == m[2]
        l == w % 3
        t == h \div 4
    IN  <<l, t, l + w, t + h>>

\* the metrics the library may report for a font: what it reported before,
\* or any metric when the font is measured for the first time
MetricChoices(font) ==
    IF font \in DOMAIN metrics THEN {metrics[font]}
    ELSE {<<w, h>> : w \in Widths, h \in Heights}

\* whether the rotated glyphs of a label put ink on pixel (512,512): never
\* outside the pasted box, fixed per font and text inside it
InkChoices(layer, at) ==
    IF ~InBox(center, PasteBox(layer, at)) THEN {FALSE}
    ELSE IF <<layer.font, layer.text>> \in DOMAIN inks
         THEN {inks[<<layer.font, layer.text>>]}
    ELSE BOOLEAN

Remember(f, k, v) == IF k \in DOMAIN f THEN f ELSE f @@ (k :> v)

(***************************************************************************)
(* Initial state: the process has started, generate_icon() is entered.     *)
(***************************************************************************)
Init ==
    /\ pc = "start"
    /\ run = 1
    /\ img = NoImage
    /\ font_large = NoFont /\ font_emoji = NoFont
    /\ hello_width = 0 /\ hello_height = 0
    /\ hello_img = NoLayer /\ hello_rotated = NoLayer
    /\ world_width = 0 /\ world_height = 0
    /\ world_img = NoLayer /\ world_rotated = NoLayer
    /\ pos_idx = 1
    /\ output_path = "" /\ ret = ""
    /\ stdout = <<>>
    /\ disk \in [FileNames -> {NoFile, OldFile}]
    /\ raised = <<>>
    /\ covered = {}
    /\ writes = 0
    /\ prev = NoPrev
    /\ metrics = <<>>
    /\ inks = <<>>

(***************************************************************************)
(* Raising.                                                                *)
(***************************************************************************)
\* the statement at `step` raises: control goes to its handler, or the
\* exception leaves generate_icon() and ends the process (pc = "fault")
Throw(step) ==
    /\ pc' = Handler(step)
    /\ raised' = Append(raised, step)
    /\ UNCHANGED <<run, img, pos_idx, fonts, helloVars, worldVars, outVars,
                   histVars, envVars>>

\* the statement completes and control moves to `next`
Goto(next) ==
    /\ pc' = next
    /\ UNCHANGED <<run, raised>>

(***************************************************************************)
(* Lines 13-24: canvas and background circle.                              *)
(***************************************************************************)
NewCanvas ==
    /\ pc = "start"
    /\ \/ /\ img' = Image_new("RGBA", size, BgColor)
          /\ Goto("circle")
          /\ UNCHANGED <<pos_idx, fonts, helloVars, worldVars, outVars,
                         histVars, envVars>>
       \/ Throw("start")

DrawCircle ==
    /\ pc = "circle"
    /\ \/ /\ img' = ellipse(img, "circle", circle_bbox, BgColor, OutlineColor,
                             OutlineWidth)
          /\ Goto("t1_large")
          /\ UNCHANGED <<pos_idx, fonts, helloVars, worldVars, outVars,
                         histVars, envVars>>
       \/ Throw("circle")

(***************************************************************************)
(* Lines 27-39: font resolution.                                           *)
(***************************************************************************)
\* one font load: on success the handle is bound and control moves on
LoadLarge(step, font, next) ==
    /\ pc = step
    /\ \/ /\ font_large' = font
          /\ Goto(next)
          /\ UNCHANGED <<img, pos_idx, font_emoji, helloVars, worldVars,
                         outVars, histVars, envVars>>
       \/ Throw(step)

LoadEmoji(step, font, next) ==
    /\ pc = step
    /\ \/ /\ font_emoji' = font
          /\ Goto(next)
          /\ UNCHANGED <<img, pos_idx, font_large, helloVars, worldVars,
                         outVars, histVars, envVars>>
       \/ Throw(step)

Tier1Large == LoadLarge("t1_large", truetype(ArialName, LargeSize), "t1_emoji")
Tier1Emoji == LoadEmoji("t1_emoji", truetype(ArialName, EmojiSize), "hello_measure")
Tier2Large == LoadLarge("t2_large", truetype(ArialPath, LargeSize), "t2_emoji")
Tier2Emoji == LoadEmoji("t2_emoji", truetype(ArialPath, EmojiSize), "hello_measure")
Tier3Large == LoadLarge("t3_large", load_default, "t3_emoji")
Tier3Emoji == LoadEmoji("t3_emoji", load_default, "hello_measure")

(***************************************************************************)
(* Lines 42-83: the two labels.                                            *)
(***************************************************************************)
\* mutant: the width is not halved
hello_x_NoHalf == center[1] - hello_width

hello_x == center[1] - hello_width \div 2
world_x == center[1] - world_width \div 2

\* lines 46-52
HelloMeasure ==
    /\ pc = "hello_measure"
    /\ \/ \E m \in MetricChoices(font_large) :
            LET hello_bbox == TextBBox(m, hello_text) IN
            /\ hello_width' = hello_bbox[3] - hello_bbox[1]
            /\ hello_height' = hello_bbox[4] - hello_bbox[2]
            /\ metrics' = Remember(metrics, font_large, m)
            /\ Goto("hello_layer")
            /\ UNCHANGED <<img, pos_idx, fonts, hello_img, hello_rotated,
                           worldVars, outVars, histVars, inks>>
       \/ Throw("hello_measure")

\* lines 55-57
HelloLayer ==
    /\ pc = "hello_layer"
    /\ \/ /\ hello_img' = TextLayer(hello_width, hello_height, hello_text,
                                     font_large, hello_color)
          /\ Goto("hello_paste")
          /\ UNCHANGED <<img, pos_idx, fonts, hello_width, hello_height,
                         hello_rotated, worldVars, outVars, histVars, envVars>>
       \/ Throw("hello_layer")

\* lines 60-61
HelloPaste ==
    /\ pc = "hello_paste"
    /\ \/ LET rot == rotate(hello_img, HelloAngle)
              at  == <<hello_x - PadX, hello_y - PadY>>
          IN  \E ink \in InkChoices(rot, at) :
                /\ hello_rotated' = rot
                /\ img' = paste(img, rot, at, ink)
                /\ covered' = IF ink THEN covered \cup {hello_text} ELSE covered
                /\ inks' = IF InBox(center, PasteBox(rot, at))
                            THEN Remember(inks, <<rot.font, rot.text>>, ink)
                            ELSE inks
                /\ Goto("world_measure")
                /\ UNCHANGED <<pos_idx, fonts, hello_width, hello_height,
                               hello_img, worldVars, outVars, writes, prev,
                               metrics>>
       \/ Throw("hello_paste")

\* lines 68-74
WorldMeasure ==
    /\ pc = "world_measure"
    /\ \/ \E m \in MetricChoices(font_large) :
            LET world_bbox == TextBBox(m, world_text) IN
            /\ world_width' = world_bbox[3] - world_bbox[1]
            /\ world_height' = world_bbox[4] - world_bbox[2]
            /\ metrics' = Remember(metrics, font_large, m)
            /\ Goto("world_layer")
            /\ UNCHANGED <<img, pos_idx, fonts, helloVars, world_img,
                           world_rotated, outVars, histVars, inks>>
       \/ Throw("world_measure")

\* lines 77-79
WorldLayer ==
    /\ pc = "world_layer"
    /\ \/ /\ world_img' = TextLayer(world_width, world_height, world_text,
                                     font_large, world_color)
          /\ Goto("world_paste")
          /\ UNCHANGED <<img, pos_idx, fonts, helloVars, world_width,
                         world_height, world_rotated, outVars, histVars,
                         envVars>>
       \/ Throw("world_layer")

\* lines 82-83
WorldPaste ==
    /\ pc = "world_paste"
    /\ \/ LET rot == rotate(world_img, WorldAngle)
              at  == <<world_x - PadX, world_y - PadY>>
          IN  \E ink \in InkChoices(rot, at) :
                /\ world_rotated' = rot
                /\ img' = paste(img, rot, at, ink)
                /\ covered' = IF ink THEN covered \cup {world_text} ELSE covered
                /\ inks' = IF InBox(center, PasteBox(rot, at))
                            THEN Remember(inks, <<rot.font, rot.text>>, ink)
                            ELSE inks
                /\ pc' = "stars"
                /\ pos_idx' = 1
                /\ UNCHANGED <<run, raised, fonts, helloVars, world_width,
                               world_height, world_img, outVars, writes, prev,
                               metrics>>
       \/ Throw("world_paste")

(***************************************************************************)
(* Lines 90-115: decorations.                                              *)
(***************************************************************************)
\* mutant: the heart loop is missing, the stars are followed by the save
DrawStar_NoHearts ==
    /\ pc = "stars"
    /\ pos_idx \in DOMAIN sparkle_positions
    /\ \/ LET pos    == sparkle_positions[pos_idx]
              points == StarPoints(pos)
          IN  \E touch \in (IF PolygonMayTouch(points, center)
                             THEN BOOLEAN ELSE {FALSE}) :
                /\ img' = polygon(img, "star", points, star_color, touch)
                /\ covered' = IF touch THEN covered \cup {"star"} ELSE covered
                /\ IF pos_idx < Len(sparkle_positions)
                   THEN pc' = "stars" /\ pos_idx' = pos_idx + 1
                   ELSE pc' = "save" /\ pos_idx' = 1
                /\ UNCHANGED <<run, raised, fonts, helloVars, worldVars,
                               outVars, writes, prev, envVars>>
       \/ Throw("stars")

\* one iteration of the loop over sparkle_positions (lines 94-110)
DrawStar ==
    /\ pc = "stars"
    /\ pos_idx \in DOMAIN sparkle_positions
    /\ \/ LET pos    == sparkle_positions[pos_idx]
              points == StarPoints(pos)
          IN  \E touch \in (IF PolygonMayTouch(points, center)
                             THEN BOOLEAN ELSE {FALSE}) :
                /\ img' = polygon(img, "star", points, star_color, touch)
                /\ covered' = IF touch THEN covered \cup {"star"} ELSE covered
                /\ IF pos_idx < Len(sparkle_positions)
                   THEN pc' = "stars" /\ pos_idx' = pos_idx + 1
                   ELSE pc' = "hearts" /\ pos_idx' = 1
                /\ UNCHANGED <<run, raised, fonts, helloVars, worldVars,
                               outVars, writes, prev, envVars>>
       \/ Throw("stars")

\* one iteration of the loop over heart_positions (lines 114-115)
DrawHeart ==
    /\ pc = "hearts"
    /\ pos_idx \in DOMAIN heart_positions
    /\ \/ LET pos  == heart_positions[pos_idx]
              next == ellipse(img, "heart", HeartBox(pos), heart_color,
                              heart_color, 0)
          IN  /\ img' = next
              /\ covered' = IF next.px # img.px
                             THEN covered \cup {"heart"} ELSE covered
              /\ IF pos_idx < Len(heart_positions)
                 THEN pc' = "hearts" /\ pos_idx' = pos_idx + 1
                 ELSE pc' = "save" /\ pos_idx' = 1
              /\ UNCHANGED <<run, raised, fonts, helloVars, worldVars,
                             outVars, writes, prev, envVars>>
       \/ Throw("hearts")

(***************************************************************************)
(* Lines 118-122: save, report, return.                                    *)
(***************************************************************************)
\* lines 118-119; a save that raises may have removed or never made the file
Save ==
    /\ pc = "save"
    /\ output_path' = OutputName
    /\ \/ /\ disk' = [disk EXCEPT ![OutputName] = EncodePNG(img)]
          /\ writes' = writes + 1
          /\ Goto("print")
          /\ UNCHANGED <<img, pos_idx, fonts, helloVars, worldVars, ret,
                         stdout, covered, prev, envVars>>
       \/ /\ disk' \in {disk, [disk EXCEPT ![OutputName] = NoFile]}
          /\ pc' = Handler("save")
          /\ raised' = Append(raised, "save")
          /\ UNCHANGED <<run, img, pos_idx, fonts, helloVars, worldVars, ret,
                         stdout, histVars, envVars>>

\* line 120
PrintMessage ==
    /\ pc = "print"
    /\ \/ /\ stdout' = Append(stdout, <<"Icon generated successfully as ",
                                         output_path>>)
          /\ Goto("return")
          /\ UNCHANGED <<img, pos_idx, fonts, helloVars, worldVars,
                         output_path, ret, disk, histVars, envVars>>
       \/ Throw("print")

\* line 122
Return ==
    /\ pc = "return"
    /\ ret' = output_path
    /\ Goto("done")
    /\ UNCHANGED <<img, pos_idx, fonts, helloVars, worldVars, output_path,
                   stdout, disk, histVars, envVars>>

(***************************************************************************)
(* A second invocation of generate_icon() in the same working directory:   *)
(* every local is fresh; the file system, the console and the fonts'       *)
(* metrics are what the first invocation left.                             *)
(***************************************************************************)
Rerun ==
    /\ pc = "done"
    /\ run + 1 \in Runs
    /\ run' = run + 1
    /\ pc' = "start"
    /\ img' = NoImage
    /\ font_large' = NoFont /\ font_emoji' = NoFont
    /\ hello_width' = 0 /\ hello_height' = 0
    /\ hello_img' = NoLayer /\ hello_rotated' = NoLayer
    /\ world_width' = 0 /\ world_height' = 0
    /\ world_img' = NoLayer /\ world_rotated' = NoLayer
    /\ pos_idx' = 1
    /\ output_path' = "" /\ ret' = ""
    /\ raised' = <<>>
    /\ covered' = {}
    /\ writes' = 0
    /\ prev' = [file |-> disk[OutputName], font |-> font_large]
    /\ UNCHANGED <<stdout, disk, envVars>>

Step ==
    \/ NewCanvas \/ DrawCircle
    \/ Tier1Large \/ Tier1Emoji \/ Tier2Large \/ Tier2Emoji
    \/ Tier3Large \/ Tier3Emoji
    \/ HelloMeasure \/ HelloLayer \/ HelloPaste
    \/ WorldMeasure \/ WorldLayer \/ WorldPaste
    \/ DrawStar \/ DrawHeart
    \/ Save \/ PrintMessage \/ Return

Next == Step \/ Rerun

Spec == Init /\ [][Next]_vars

\* the interpreter runs a started routine statement by statement until it
\* returns or an exception leaves it; a second invocation is optional
FairSpec == Spec /\ WF_vars(Step)

(***************************************************************************)
(* Vocabulary of the properties.                                           *)
(***************************************************************************)
Tier1Steps == {"t1_large", "t1_emoji"}
Tier2Steps == {"t2_large", "t2_emoji"}
Tier3Steps == {"t3_large", "t3_emoji"}
AfterFontSteps == {"hello_measure", "hello_layer", "hello_paste",
                   "world_measure", "world_layer", "world_paste",
                   "stars", "hearts", "save", "print", "return", "done"}

RaisedAt == {raised[n] : n \in DOMAIN raised}
LastRaised == raised[Len(raised)]
\* the statement the run is at, or died at
Where == IF pc = "fault" THEN LastRaised ELSE pc
Resolved == Where \in AfterFontSteps
Failed(steps) == RaisedAt \cap steps # {}
\* success lines printed by this run (every earlier run printed one)
Printed == Len(stdout) - (run - 1)
OpNames == [n \in DOMAIN img.ops |-> img.ops[n].what]
IsPrefix(a, b) == Len(a) <= Len(b) /\ \A n \in DOMAIN a : a[n] = b[n]
DrawingOrder == <<"circle", "Hello", "World", "star", "star", "star", "star",
                  "heart", "heart">>

(***************************************************************************)
(* C1: whatever the outcome of the four named-font loads, a started run    *)
(* ends; it ends by returning "icon.png" unless a call other than a tier-1 *)
(* or tier-2 font load raised: such a load failure is never what ends it.  *)
(***************************************************************************)
C1_FontFailureNeverEndsRun ==
    /\ [](pc = "fault" => LastRaised \notin Tier1Steps \cup Tier2Steps)
    /\ [](pc = "done" => ret = "icon.png")
    /\ [](pc = "start" => <>(pc \in {"done", "fault"}))

C1_Witness ==
    /\ pc = "done" /\ ret = "icon.png"
    /\ raised = <<"t1_emoji", "t2_large">>

(***************************************************************************)
(* C2: the fallback is ordered and the first tier that loads wins: tier 2  *)
(* is tried only after tier 1 failed, tier 3 only after tiers 1 and 2      *)
(* failed, no tier-1 or tier-2 failure leaves the routine, and once        *)
(* resolution is over font_large is a font of the first tier that did not  *)
(* fail.                                                                   *)
(***************************************************************************)
C2_OrderedFallback ==
    LET tried2 == \/ pc \in Tier2Steps \/ Failed(Tier2Steps)
                  \/ TierOf(font_large) = 2 \/ TierOf(font_emoji) = 2
        tried3 == \/ pc \in Tier3Steps \/ Failed(Tier3Steps)
                  \/ TierOf(font_large) = 3 \/ TierOf(font_emoji) = 3
        first  == IF ~Failed(Tier1Steps) THEN 1
                  ELSE IF ~Failed(Tier2Steps) THEN 2 ELSE 3
    IN  /\ tried2 => Failed(Tier1Steps)
        /\ tried3 => Failed(Tier1Steps) /\ Failed(Tier2Steps)
        /\ pc = "fault" => LastRaised \notin Tier1Steps \cup Tier2Steps
        /\ Resolved => font_large # NoFont /\ TierOf(font_large) = first

C2_Witness ==
    /\ pc = "hello_layer"
    /\ raised = <<"t1_large", "t2_large">>
    /\ font_large = load_default

(***************************************************************************)
(* C3: the canvas receives circle, "Hello", "World", four stars, two       *)
(* hearts in that order; a run writes the file at most once and only the   *)
(* fully drawn canvas; the message follows the write and the return the    *)
(* message.                                                                *)
(***************************************************************************)
C3_FixedOrderSingleWrite ==
    /\ IsPrefix(OpNames, DrawingOrder)
    /\ writes <= 1
    /\ writes = 1 => /\ OpNames = DrawingOrder
                     /\ disk["icon.png"].ops = img.ops
    /\ Printed \in {0, 1}
    /\ Printed = 1 => writes = 1
    /\ ret # "" => Printed = 1
    /\ pc = "done" => ret # ""

C3_Witness ==
    /\ pc = "done" /\ run = 1
    /\ writes = 1 /\ Len(stdout) = 1
    /\ Len(img.ops) = 9

(***************************************************************************)
(* C4: the canvas is 1024x1024 RGBA from its creation on, whatever is      *)
(* drawn or pasted on it, and a file this run has written is a 1024x1024   *)
(* RGBA PNG.                                                               *)
(***************************************************************************)
C4_CanvasStays1024RGBA ==
    /\ img # NoImage => img.size = <<1024, 1024>> /\ img.mode = "RGBA"
    /\ writes = 1 => /\ disk["icon.png"].format = "PNG"
                     /\ disk["icon.png"].size = <<1024, 1024>>
                     /\ disk["icon.png"].mode = "RGBA"

C4_Witness ==
    /\ writes = 1
    /\ prev = NoPrev
    /\ disk["icon.png"].size = <<1024, 1024>>
    /\ hello_rotated.size[1] > hello_img.size[1]
    /\ hello_rotated.size[1] > 400

(***************************************************************************)
(* C5: a raise anywhere but in a tier-1 or tier-2 font load is not caught: *)
(* the run goes to its fault state, where this run has printed no success  *)
(* line and returned nothing, and from which nothing more is executed.     *)
(***************************************************************************)
C5_OtherFailuresFatal ==
    /\ [](pc = "fault" => /\ Printed = 0 /\ ret = ""
                          /\ LastRaised \notin Tier1Steps \cup Tier2Steps)
    /\ [][/\ pc # "fault"
          /\ (/\ Len(raised') > Len(raised)
              /\ raised'[Len(raised')] \notin Tier1Steps \cup Tier2Steps)
                => pc' = "fault"]_vars

C5_Witness ==
    /\ pc = "fault" /\ LastRaised = "save"
    /\ Printed = 0 /\ ret = ""

(***************************************************************************)
(* C6: when a second run has written its file, that file has the size and  *)
(* mode of the first run's file, and the same content if both runs ended   *)
(* up with the same font; a second run starts from fresh locals.           *)
(***************************************************************************)
C6_RerunSameOutput ==
    /\ (run = 2 /\ writes = 1) =>
          /\ disk["icon.png"].size = prev.file.size
          /\ disk["icon.png"].mode = prev.file.mode
          /\ font_large = prev.font => disk["icon.png"] = prev.file
    /\ (run = 2 /\ pc = "circle") =>
          img.ops = <<>> /\ img.px = <<248, 249, 250, 255>>

C6_Witness ==
    /\ run = 2 /\ pc = "done"
    /\ font_large = prev.font
    /\ "World" \in covered
    /\ disk["icon.png"] = prev.file

(***************************************************************************)
(* C7: from the background step on, pixel (512,512) is opaque (248,249,    *)
(* 250) as long as no label has put ink on it; no star and no heart ever   *)
(* touches it.                                                             *)
(***************************************************************************)
C7_CentrePixel ==
    /\ covered \subseteq {"Hello", "World"}
    /\ (Len(img.ops) >= 1 /\ covered = {}) => img.px = <<248, 249, 250, 255>>

C7_Witness ==
    /\ pc = "done"
    /\ covered = {}
    /\ img.px = <<248, 249, 250, 255>>
    /\ InBox(center, img.ops[3].box)

(***************************************************************************)
(* C8: every star vertex lies within 20 pixels of one of the four star     *)
(* positions and every heart box within 15 of a heart position, and all of *)
(* them lie within 0..1024 in x and y.                                     *)
(***************************************************************************)
C8_DecorationsInBounds ==
    \A n \in DOMAIN img.ops :
        LET op == img.ops[n] IN
        /\ op.what = "star" =>
              /\ Len(op.pts) = 10
              /\ \A k \in DOMAIN op.pts : \A c \in 1..2 :
                    0 <= op.pts[k][c] /\ op.pts[k][c] <= 1024 * 1000
              /\ \E q \in {<<180, 200>>, <<844, 180>>, <<160, 780>>, <<860, 820>>} :
                    \A k \in DOMAIN op.pts : \A c \in 1..2 :
                        /\ (q[c] - 20) * 1000 <= op.pts[k][c]
                        /\ op.pts[k][c] <= (q[c] + 20) * 1000
        /\ op.what = "heart" =>
              /\ \A c \in 1..4 : 0 <= op.box[c] /\ op.box[c] <= 1024
              /\ \E q \in {<<240, 340>>, <<780, 680>>} :
                    op.box = <<q[1] - 15, q[2] - 15, q[1] + 15, q[2] + 15>>

C8_Witness ==
    /\ pc = "save"
    /\ Cardinality({n \in DOMAIN img.ops : img.ops[n].what = "star"}) = 4
    /\ Cardinality({n \in DOMAIN img.ops : img.ops[n].what = "heart"}) = 2

C10_BothLoadsOrNextTier ==
    /\ Resolved =>
          /\ TierOf(font_large) \in 1..3
          /\ TierOf(font_emoji) = TierOf(font_large)
          /\ "t1_emoji" \in RaisedAt => TierOf(font_large) > 1
          /\ "t2_emoji" \in RaisedAt => TierOf(font_large) > 2
    /\ \A n \in DOMAIN img.ops :
          img.ops[n].font # NoFont =>
              /\ img.ops[n].font = font_large
              /\ TierOf(font_large) \in 1..2 => img.ops[n].font.size = 140

C10_Witness ==
    /\ pc = "done"
    /\ raised = <<"t1_emoji">>
    /\ TierOf(font_large) = 2 /\ TierOf(font_emoji) = 2
    /\ img.ops[2].font = font_large

====
